---- MODULE Spec2Model ----
(***************************************************************************)
(* The skyway node map (skyway/nodemap.py): the registry of cluster hosts, *)
(* the usage journal, the fcntl lock and the generated /etc/hosts and      *)
(* /etc/netgroup files, used by independently started processes.           *)
(*                                                                         *)
(* Strings that the code splits on "-" (host names, accounts) are          *)
(* sequences of their hyphen-free segments: "rcc-aws-t1" is                *)
(* <<"rcc","aws","t1">>.  Other strings are TLA+ strings.                   *)
(***************************************************************************)
EXTENDS Integers, Sequences, FiniteSets, TLC

\* ------------------------------------------------------------------ bounds
MaxClock == 2
MaxJournal == 1

\* ------------------------------------------------------------ input sets
Procs == {"p1", "p2"}

H1 == <<"rcc", "aws", "t1">>
H2 == <<"rcc", "gcp", "t1">>
HostNames == {H1, H2}

\* The empty string, as a hyphen-split string: ''.split('-') == ['']
EmptyHost == <<"">>

Instances == {"", "i-1"}
Ips == {"", "10.0.0.1"}
Clouds == {"aws", "gcp"}

\* Python's None, for the optional arguments of power_off
None == "<None>"

\* ---------------------------------------------------------------- state
VARIABLES
    now,          \* the wall clock, in whole seconds (tsnow has 1 s resolution)
    db_map,       \* the persisted registry, table node_map: rows in insertion order
    journal,      \* the persisted journal, table node_journal: rows in insertion order
    etc_hosts,    \* content of /etc/hosts
    etc_netgroup, \* content of /etc/netgroup
    lockHolders,  \* processes holding the exclusive fcntl lock on lock_file
    pc,           \* per process: position in the running method
    nodes,        \* per process: self.nodes, a dict in insertion order
    call,         \* per process: the public method being (or last) executed, with its arguments
    saved,        \* per process: power_off's copy of the node (local 'node')
    removed,      \* per process: rebuild's local list 'removed'
    desired,      \* per process: rebuild's argument 'nodes', still to be visited
    ret           \* per process: result of the call, once it has finished

vars == <<now, db_map, journal, etc_hosts, etc_netgroup, lockHolders,
          pc, nodes, call, saved, removed, desired, ret>>

\* ------------------------------------------------------- values and rows
\* A start value: the code stores the int 0 (rebuild), the string '0'
\* (power_off) or the decimal string of the epoch second (power_on).
IntVal(n) == [str |-> FALSE, n |-> n]
StrVal(n) == [str |-> TRUE, n |-> n]

\* datetime.now().strftime('%s'): the epoch second, as a decimal string
tsnow == StrVal(now)

NoRow == [host |-> EmptyHost, type |-> "", cloud |-> "", account |-> EmptyHost,
          instance |-> "", ip |-> "", start |-> IntVal(0)]

\* dict lookup: position of the key in the insertion-ordered dict, 0 if absent
IndexOf(rows, h) ==
    IF \E k \in 1..Len(rows) : rows[k].host = h
    THEN CHOOSE k \in 1..Len(rows) : rows[k].host = h
    ELSE 0

HasKey(rows, h) == IndexOf(rows, h) # 0

Keys(rows) == {rows[k].host : k \in 1..Len(rows)}

\* del d[h]
DelKey(rows, h) ==
    LET k == IndexOf(rows, h)
    IN  IF k = 0 THEN rows
        ELSE [j \in 1..(Len(rows) - 1) |-> IF j < k THEN rows[j] ELSE rows[j + 1]]

\* d[h] = row, keeping the position of an existing key (dict assignment)
SetKey(rows, h, row) ==
    LET k == IndexOf(rows, h)
    IN  IF k = 0 THEN Append(rows, row) ELSE [rows EXCEPT ![k] = row]

GetKey(rows, h) == rows[IndexOf(rows, h)]

\* --------------------------------------------------- the database layer
\* A numeric column keeps the number a decimal string denotes.
DbNumber(v) == IntVal(v.n)

\* db.select('node_map', ...): all rows
DbSelectMap == db_map

\* db.update_one('node_map', 'host', host, kwargs): UPDATE ... WHERE host = host
DbUpdateOne(table, h, instance, ip, start) ==
    LET k == IndexOf(table, h)
    IN  IF k = 0 THEN table
        ELSE [table EXCEPT ![k] = [@ EXCEPT !.instance = instance, !.ip = ip,
                                              !.start = DbNumber(start)]]

\* db.insert_one('node_map', **node): the registry's upsert, host is unique
DbInsertMap(table, row) == SetKey(table, row.host, [row EXCEPT !.start = DbNumber(@)])

\* db.remove_one('node_map', 'host', host)
DbRemoveOne(table, h) == DelKey(table, h)

\* db.insert_one('node_journal', **node)
DbInsertJournal(table, entry) ==
    Append(table, [entry EXCEPT !.start = DbNumber(@), !.end = DbNumber(@)])

\* ------------------------------------------------------------ dump_hosts
HostsBase == "hosts-base"

\* the line without the substitute address
HostsLineRawIp(node) == <<node.ip, node.host>>

\* ' '.join(['1.2.3.4' if node['ip']=='' else node['ip'], host]) for every item
HostsLine(node) == <<IF node.ip = "" THEN "1.2.3.4" ELSE node.ip, node.host>>

\* hostsbase + '\n'.join([...]) + "\n"
HostsText(rows) == [prefix |-> HostsBase,
                    lines |-> [k \in 1..Len(rows) |-> HostsLine(rows[k])]]

\* the items of a sequence that satisfy Test, in order
RECURSIVE SelectIps(_)
SelectIps(rows) ==
    IF rows = <<>> THEN <<>>
    ELSE IF Head(rows).ip # "" THEN <<Head(rows).ip>> \o SelectIps(Tail(rows))
         ELSE SelectIps(Tail(rows))

\* 'skyway    ' + ' '.join(['(' + node['ip'] + ',,)' ... if node['ip'] != '']) + "\n"
NetgroupText(rows) == [group |-> "skyway", tuples |-> SelectIps(rows)]

\* ---------------------------------------------------------------- results
\* kind: "None", "self", "str" (val is the string), "raise" (val is the
\* exception type), "error" (the error string that names host), "dict"
\* (data is the set of its items) or "frame" (data is the set of the rows
\* of the DataFrame)
RetNone == [kind |-> "None", val |-> "", host |-> EmptyHost, data |-> {}]
RetSelf == [kind |-> "self", val |-> "", host |-> EmptyHost, data |-> {}]
RetStr(s) == [kind |-> "str", val |-> s, host |-> EmptyHost, data |-> {}]
RetRaise(e) == [kind |-> "raise", val |-> e, host |-> EmptyHost, data |-> {}]
RetError(h, s) == [kind |-> "error", val |-> s, host |-> h, data |-> {}]
RetDict(items) == [kind |-> "dict", val |-> "", host |-> EmptyHost, data |-> items]
RetFrame(rows) == [kind |-> "frame", val |-> "", host |-> EmptyHost, data |-> rows]

\* follows: the instance that the call just before gave to the same host, when
\* this is a power_off(host) right after a finished power_on(host, ...);
\* "rebuild" when this is a rebuild right after a successful rebuild with
\* the same list.  list: the argument of rebuild.
NoCall == [op |-> "", host |-> EmptyHost, instance |-> "", follows |-> "",
           list |-> <<>>]

Call(o, h, i) == [op |-> o, host |-> h, instance |-> i, follows |-> "",
                  list |-> <<>>]

\* ------------------------------------------------------------- processes
\* NodeMap(): self.nodes is filled from the rows of node_map
Construct(p) ==
    /\ pc[p] = "dead"
    /\ pc' = [pc EXCEPT ![p] = "idle"]
    /\ nodes' = [nodes EXCEPT ![p] = DbSelectMap]
    /\ UNCHANGED <<now, db_map, journal, etc_hosts, etc_netgroup, lockHolders,
                   call, saved, removed, desired, ret>>

\* The process ends; its NodeMap object is gone.
Exit(p) ==
    /\ pc[p] = "idle"
    /\ pc' = [pc EXCEPT ![p] = "dead"]
    /\ nodes' = [nodes EXCEPT ![p] = <<>>]
    /\ call' = [call EXCEPT ![p] = NoCall]
    /\ saved' = [saved EXCEPT ![p] = NoRow]
    /\ ret' = [ret EXCEPT ![p] = RetNone]
    /\ UNCHANGED <<now, db_map, journal, etc_hosts, etc_netgroup, lockHolders,
                   removed, desired>>

\* One second passes.
Tick ==
    /\ now < MaxClock
    /\ now' = now + 1
    /\ UNCHANGED <<db_map, journal, etc_hosts, etc_netgroup, lockHolders,
                   pc, nodes, call, saved, removed, desired, ret>>

\* ---------------------------------------------------------------- update
\* an update that writes the values into every node
UpdateNodesAll(rows, h, instance, ip, start) ==
    [k \in 1..Len(rows) |->
        [rows[k] EXCEPT !.instance = instance, !.ip = ip, !.start = start]]

\* for k, v in kwargs.items(): self.nodes[host][k] = v
UpdateNodes(rows, h, instance, ip, start) ==
    [rows EXCEPT ![IndexOf(rows, h)] =
        [@ EXCEPT !.instance = instance, !.ip = ip, !.start = start]]

\* a dict that answers for every key
MissingNever(rows, h) == FALSE

\* self.nodes[host] raises KeyError
Missing(rows, h) == ~HasKey(rows, h)

\* -------------------------------------------------------------- power_on
PowerOn(p, h, i, a) ==
    /\ pc[p] = "idle"
    /\ call' = [call EXCEPT ![p] = Call("power_on", h, i)]
    /\ IF Missing(nodes[p], h)
       THEN \* self.nodes[host] raises KeyError before anything is written
            /\ ret' = [ret EXCEPT ![p] = RetRaise("KeyError")]
            /\ UNCHANGED <<pc, nodes, db_map>>
       ELSE /\ nodes' = [nodes EXCEPT ![p] = UpdateNodes(@, h, i, a, tsnow)]
            /\ db_map' = DbUpdateOne(db_map, h, i, a, tsnow)
            /\ pc' = [pc EXCEPT ![p] = "dump_lock"]
            /\ ret' = [ret EXCEPT ![p] = RetNone]
    /\ UNCHANGED <<now, journal, etc_hosts, etc_netgroup, lockHolders,
                   saved, removed, desired>>

\* ------------------------------------------------------------ dump_hosts
\* a direct call of dump_hosts()
DumpHosts(p) ==
    /\ pc[p] = "idle"
    /\ call' = [call EXCEPT ![p] = Call("dump_hosts", EmptyHost, "")]
    /\ pc' = [pc EXCEPT ![p] = "dump_lock"]
    /\ ret' = [ret EXCEPT ![p] = RetNone]
    /\ UNCHANGED <<now, db_map, journal, etc_hosts, etc_netgroup, lockHolders,
                   nodes, saved, removed, desired>>

\* a lock call that does not wait for the holder
LockGrantedNoWait(p) == TRUE

\* fcntl.lockf(fd, LOCK_EX) returns once no other process holds the lock
LockGranted(p) == lockHolders \subseteq {p}

\* self.lock()
DumpLock(p) ==
    /\ pc[p] = "dump_lock"
    /\ LockGranted(p)
    /\ lockHolders' = lockHolders \cup {p}
    /\ pc' = [pc EXCEPT ![p] = "dump_hosts"]
    /\ UNCHANGED <<now, db_map, journal, etc_hosts, etc_netgroup,
                   nodes, call, saved, removed, desired, ret>>

\* with open('/etc/hosts', 'w') as f: f.write(...)
DumpWriteHosts(p) ==
    /\ pc[p] = "dump_hosts"
    /\ etc_hosts' = HostsText(nodes[p])
    /\ pc' = [pc EXCEPT ![p] = "dump_netgroup"]
    /\ UNCHANGED <<now, db_map, journal, etc_netgroup, lockHolders,
                   nodes, call, saved, removed, desired, ret>>

\* with open('/etc/netgroup', 'w') as f: f.write(...)
DumpWriteNetgroup(p) ==
    /\ pc[p] = "dump_netgroup"
    /\ etc_netgroup' = NetgroupText(nodes[p])
    /\ pc' = [pc EXCEPT ![p] = "dump_unlock"]
    /\ UNCHANGED <<now, db_map, journal, etc_hosts, lockHolders,
                   nodes, call, saved, removed, desired, ret>>

\* what the public method returns once dump_hosts has returned
ReturnValue(c, node) ==
    IF c.op = "power_off" THEN RetStr(node.instance)
    ELSE IF c.op = "dump_hosts" THEN RetSelf
    ELSE RetNone

\* dump_hosts without the self.unlock() at its end
DumpUnlockKeep(p) ==
    /\ pc[p] = "dump_unlock"
    /\ pc' = [pc EXCEPT ![p] = "idle"]
    /\ ret' = [ret EXCEPT ![p] = ReturnValue(call[p], saved[p])]
    /\ saved' = [saved EXCEPT ![p] = NoRow]
    /\ UNCHANGED <<now, db_map, journal, etc_hosts, etc_netgroup, lockHolders,
                   nodes, call, removed, desired>>


\* self.unlock(); return self; and the caller's own return
DumpUnlock(p) ==
    /\ pc[p] = "dump_unlock"
    /\ lockHolders' = lockHolders \ {p}
    /\ pc' = [pc EXCEPT ![p] = "idle"]
    /\ ret' = [ret EXCEPT ![p] = ReturnValue(call[p], saved[p])]
    /\ saved' = [saved EXCEPT ![p] = NoRow]
    /\ UNCHANGED <<now, db_map, journal, etc_hosts, etc_netgroup,
                   nodes, call, removed, desired>>

\* open() of hosts-base, of /etc/hosts or of /etc/netgroup raises OSError:
\* nothing between self.lock() and self.unlock() catches it, the error goes
\* to the caller and self.__lock stays open
DumpFail(p) ==
    /\ pc[p] \in {"dump_hosts", "dump_netgroup"}
    /\ pc' = [pc EXCEPT ![p] = "idle"]
    /\ ret' = [ret EXCEPT ![p] = RetRaise("OSError")]
    /\ saved' = [saved EXCEPT ![p] = NoRow]
    /\ UNCHANGED <<now, db_map, journal, etc_hosts, etc_netgroup, lockHolders,
                   nodes, call, removed, desired>>

\* what a file opened with mode 'w' may hold when the writing stops before
\* close(): open() has truncated it, and a part of the new text, possibly
\* none of it, has reached the file
EmptyHosts == [prefix |-> "", lines |-> <<>>]
EmptyNetgroup == [group |-> "", tuples |-> <<>>]

PartialHosts(new) ==
    {EmptyHosts} \cup
    {[new EXCEPT !.lines = SubSeq(new.lines, 1, k)] : k \in 0..(Len(new.lines) - 1)}

PartialNetgroup(new) ==
    {EmptyNetgroup} \cup
    {[new EXCEPT !.tuples = SubSeq(new.tuples, 1, k)] : k \in 0..(Len(new.tuples) - 1)}

\* f.write() or the close() at the end of the with-block raises OSError
\* (disk full, I/O error) after open('/etc/hosts', 'w') or
\* open('/etc/netgroup', 'w') has succeeded
DumpWriteFail(p) ==
    /\ \/ /\ pc[p] = "dump_hosts"
          /\ etc_hosts' \in PartialHosts(HostsText(nodes[p]))
          /\ UNCHANGED etc_netgroup
       \/ /\ pc[p] = "dump_netgroup"
          /\ etc_netgroup' \in PartialNetgroup(NetgroupText(nodes[p]))
          /\ UNCHANGED etc_hosts
    /\ pc' = [pc EXCEPT ![p] = "idle"]
    /\ ret' = [ret EXCEPT ![p] = RetRaise("OSError")]
    /\ saved' = [saved EXCEPT ![p] = NoRow]
    /\ UNCHANGED <<now, db_map, journal, lockHolders, nodes, call, removed, desired>>

\* ------------------------------------------------------------- power_off
\* the scan over self.nodes.items() for the (cloud, instance) pair
ResolveHost(rows, h, c, i) ==
    IF c # None /\ i # None
       /\ \E k \in 1..Len(rows) : rows[k].cloud = c /\ rows[k].instance = i
    THEN LET k == CHOOSE j \in 1..Len(rows) :
                    /\ rows[j].cloud = c /\ rows[j].instance = i
                    /\ \A m \in 1..(j - 1) : ~(rows[m].cloud = c /\ rows[m].instance = i)
         IN  rows[k].host
    ELSE h

\* the node as it is once update() has reset it: what 'node' would be
\* without the .copy()
AliasNode(rows, h) ==
    [GetKey(rows, h) EXCEPT !.instance = "", !.ip = "", !.start = StrVal(0)]

\* node = self.nodes[host].copy()
CopyNode(rows, h) == GetKey(rows, h)

\* a bare return
NotFoundNone == RetNone

\* return ''
NotFound == RetStr("")

\* power_off's journal rows still to be written, with those already written
JournalDemand == Len(journal) + Cardinality({q \in Procs : pc[q] = "off_journal"})

PowerOff(p, h, c, i) ==
    /\ pc[p] = "idle"
    /\ JournalDemand < MaxJournal
    /\ call' = [call EXCEPT ![p] =
                    [Call("power_off", h, IF i = None THEN "" ELSE i) EXCEPT
                        !.follows = IF call[p].op = "power_on" /\ call[p].host = h
                                       /\ ret[p] = RetNone /\ c = None
                                    THEN call[p].instance ELSE ""]]
    /\ LET host == ResolveHost(nodes[p], h, c, i)
       IN  IF host = EmptyHost \/ ~HasKey(nodes[p], host)
           THEN /\ ret' = [ret EXCEPT ![p] = NotFound]
                /\ UNCHANGED <<pc, nodes, db_map, saved>>
           ELSE /\ saved' = [saved EXCEPT ![p] = CopyNode(nodes[p], host)]
                /\ nodes' = [nodes EXCEPT ![p] = UpdateNodes(@, host, "", "", StrVal(0))]
                /\ db_map' = DbUpdateOne(db_map, host, "", "", StrVal(0))
                /\ pc' = [pc EXCEPT ![p] = "off_journal"]
                /\ ret' = [ret EXCEPT ![p] = RetNone]
    /\ UNCHANGED <<now, journal, etc_hosts, etc_netgroup, lockHolders,
                   removed, desired>>

\* the entry built from the node as reset
JournalEntryReset(node, end) ==
    [host |-> node.host, type |-> node.type, cloud |-> node.cloud,
     account |-> node.account, instance |-> "", start |-> StrVal(0), end |-> end]

\* node['end'] = tsnow(); del node['ip']
JournalEntry(node, end) ==
    [host |-> node.host, type |-> node.type, cloud |-> node.cloud,
     account |-> node.account, instance |-> node.instance,
     start |-> node.start, end |-> end]

PowerOffJournal(p) ==
    /\ pc[p] = "off_journal"
    /\ journal' = DbInsertJournal(journal, JournalEntry(saved[p], tsnow))
    /\ pc' = [pc EXCEPT ![p] = "dump_lock"]
    /\ UNCHANGED <<now, db_map, etc_hosts, etc_netgroup, lockHolders,
                   nodes, call, saved, removed, desired, ret>>

\* --------------------------------------------------------------- rebuild
SeqRange(q) == {q[k] : k \in 1..Len(q)}

\* the lists a caller may pass as the desired hosts
DesiredLists ==
    {d \in UNION {[1..n -> HostNames] : n \in 0..Cardinality(HostNames)} :
        \A a, b \in 1..Len(d) : a # b => d[a] # d[b]}

\* the names bound where rebuild builds its error string: its parameters and
\* locals, and the module's imports and class
RebuildScope == {"self", "nodes", "removed", "host", "node",
                 "os", "fcntl", "datetime", "pd", "cfg", "NodeMap"}

\* return "Error: ... Node [%s:s] is still on ..." % (name, node['instance'])
RebuildError(h, instance) ==
    IF "name" \notin RebuildScope THEN RetRaise("NameError")
    ELSE RetRaise("TypeError")

\* the first item of self.nodes that is not in the list and is still on
FirstLive(rows, d) ==
    IF \E k \in 1..Len(rows) : rows[k].host \notin SeqRange(d) /\ rows[k].instance # ""
    THEN CHOOSE k \in 1..Len(rows) :
            /\ rows[k].host \notin SeqRange(d) /\ rows[k].instance # ""
            /\ \A m \in 1..(k - 1) :
                  ~(rows[m].host \notin SeqRange(d) /\ rows[m].instance # "")
    ELSE 0

\* every key of self.nodes, in dict order: a first loop that forgets the
\* test 'host not in nodes'
ObsoleteAll(rows, d) == [k \in 1..Len(rows) |-> rows[k].host]

\* the keys of self.nodes that are not in the list, in dict order
RECURSIVE Obsolete(_, _)
Obsolete(rows, d) ==
    IF rows = <<>> THEN <<>>
    ELSE IF Head(rows).host \notin SeqRange(d)
         THEN <<Head(rows).host>> \o Obsolete(Tail(rows), d)
         ELSE Obsolete(Tail(rows), d)

\* every host of the list: a last loop that forgets the test
\* 'host not in self.nodes'
ToAddAll(d, rows) == d

\* the hosts of the list that the last loop still has to insert
RECURSIVE ToAdd(_, _)
ToAdd(d, rows) ==
    IF d = <<>> THEN <<>>
    ELSE IF ~HasKey(rows, Head(d)) THEN <<Head(d)>> \o ToAdd(Tail(d), rows)
         ELSE ToAdd(Tail(d), rows)

\* w = host.split("-"); node = {...}
NewNode(h) ==
    [host |-> h, cloud |-> h[2], type |-> h[3], account |-> <<h[1], h[2]>>,
     instance |-> "", ip |-> "", start |-> IntVal(0)]

\* where rebuild continues once the rows in rem are to be deleted
RebuildPc(rem, d, rows) ==
    IF rem # <<>> THEN "rebuild_remove"
    ELSE IF ToAdd(d, rows) # <<>> THEN "rebuild_add"
    ELSE "idle"

\* the first loop of rebuild
Rebuild(p, d) ==
    /\ pc[p] = "idle"
    /\ call' = [call EXCEPT ![p] =
                    [Call("rebuild", EmptyHost, "") EXCEPT
                        !.list = d,
                        !.follows = IF call[p].op = "rebuild" /\ call[p].list = d
                                       /\ ret[p] = RetSelf
                                    THEN "rebuild" ELSE ""]]
    /\ LET k == FirstLive(nodes[p], d)
           rem == Obsolete(nodes[p], d)
           next == RebuildPc(rem, d, nodes[p])
       IN  IF k # 0
           THEN /\ ret' = [ret EXCEPT ![p] =
                              RebuildError(nodes[p][k].host, nodes[p][k].instance)]
                /\ UNCHANGED <<pc, removed, desired>>
           ELSE /\ pc' = [pc EXCEPT ![p] = next]
                /\ removed' = [removed EXCEPT ![p] = rem]
                /\ desired' = [desired EXCEPT ![p] = IF next = "idle" THEN <<>> ELSE d]
                /\ ret' = [ret EXCEPT ![p] = IF next = "idle" THEN RetSelf ELSE RetNone]
    /\ UNCHANGED <<now, db_map, journal, etc_hosts, etc_netgroup, lockHolders,
                   nodes, saved>>

\* for host in removed: del self.nodes[host]; self.db.remove_one(...)
RebuildRemove(p) ==
    /\ pc[p] = "rebuild_remove"
    /\ LET h == Head(removed[p])
           rows == DelKey(nodes[p], h)
           next == RebuildPc(Tail(removed[p]), desired[p], rows)
       IN  /\ nodes' = [nodes EXCEPT ![p] = rows]
           /\ db_map' = DbRemoveOne(db_map, h)
           /\ removed' = [removed EXCEPT ![p] = Tail(@)]
           /\ pc' = [pc EXCEPT ![p] = next]
           /\ desired' = [desired EXCEPT ![p] = IF next = "idle" THEN <<>> ELSE @]
           /\ ret' = [ret EXCEPT ![p] = IF next = "idle" THEN RetSelf ELSE @]
    /\ UNCHANGED <<now, journal, etc_hosts, etc_netgroup, lockHolders,
                   call, saved>>

\* for host in nodes: if host not in self.nodes: ... insert
RebuildAdd(p) ==
    /\ pc[p] = "rebuild_add"
    /\ LET todo == ToAdd(desired[p], nodes[p])
           h == Head(todo)
       IN  IF Len(h) < 3
           THEN \* w[1] or w[2] raises IndexError
                /\ ret' = [ret EXCEPT ![p] = RetRaise("IndexError")]
                /\ pc' = [pc EXCEPT ![p] = "idle"]
                /\ desired' = [desired EXCEPT ![p] = <<>>]
                /\ UNCHANGED <<nodes, db_map>>
           ELSE LET rows == SetKey(nodes[p], h, NewNode(h))
                    next == IF ToAdd(desired[p], rows) # <<>>
                            THEN "rebuild_add" ELSE "idle"
                IN  /\ nodes' = [nodes EXCEPT ![p] = rows]
                    /\ db_map' = DbInsertMap(db_map, NewNode(h))
                    /\ pc' = [pc EXCEPT ![p] = next]
                    /\ desired' = [desired EXCEPT ![p] = IF next = "idle" THEN <<>> ELSE @]
                    /\ ret' = [ret EXCEPT ![p] = IF next = "idle" THEN RetSelf ELSE @]
    /\ UNCHANGED <<now, journal, etc_hosts, etc_netgroup, lockHolders,
                   call, saved, removed>>

\* ------------------------------------------------------- history_summary
SecondsPerHour == 3600
SecondsPerDay == 86400

\* the accounts a caller may ask for
Accounts == {<<"rcc">>, <<"rcc", "aws">>, <<"rcc", "gcp">>}

\* the start dates a caller may give, as days since 1970-01-01
StartDates == {0, 1}

\* (datetime.strptime(startdate, "%Y-%m-%d") - datetime(1970, 1, 1)).total_seconds()
StartTime(day) == day * SecondsPerDay

\* A number of hours is a count of whole hours and the seconds beyond them.
\* x / 3600.0: the quotient with its fraction
DivHoursReal(x) == [whole |-> x \div SecondsPerHour, part |-> x % SecondsPerHour]

\* x / 3600 for an integer x: the integer quotient
DivHoursInt(x) == [whole |-> x \div SecondsPerHour, part |-> 0]

\* float + float
AddHours(a, b) ==
    DivHoursReal((a.whole + b.whole) * SecondsPerHour + a.part + b.part)

RECURSIVE SumSeq(_)
SumSeq(q) == IF q = <<>> THEN 0 ELSE Head(q) + SumSeq(Tail(q))

\* the rows of node_journal WHERE account = ... AND end > starttime
JournalRows(table, account, starttime) ==
    SelectSeq(table, LAMBDA e : e.account = account /\ e.end.n > starttime)

\* the rows of node_map WHERE account = ... AND instance != ''
OnRows(table, account) ==
    SelectSeq(table, LAMBDA r : r.account = account /\ r.instance # "")

\* sum(end - start) of the rows of one type
ClosedSeconds(rows, type) ==
    LET g == SelectSeq(rows, LAMBDA e : e.type = type)
    IN  SumSeq([k \in 1..Len(g) |-> g[k].end.n - g[k].start.n])

\* sum(ts_now - start) of the rows of one type
OpenSeconds(rows, type, ts) ==
    LET g == SelectSeq(rows, LAMBDA r : r.type = type)
    IN  SumSeq([k \in 1..Len(g) |-> ts - g[k].start.n])

\* the dict that history_summary returns, as the set of its items
HistorySummary(tj, tm, ts, account, startdate) ==
    LET closed == JournalRows(tj, account, StartTime(startdate))
        open == OnRows(tm, account)
        closedTypes == {closed[k].type : k \in 1..Len(closed)}
        openTypes == {open[k].type : k \in 1..Len(open)}
        data == [t \in closedTypes |-> DivHoursReal(ClosedSeconds(closed, t))]
        hours(t) == DivHoursInt(OpenSeconds(open, t, ts))
    IN  {<<t, IF t \notin closedTypes THEN hours(t)
              ELSE IF t \in openTypes THEN AddHours(data[t], hours(t))
              ELSE data[t]>> : t \in closedTypes \cup openTypes}

\* NodeMap.history_summary(account, startdate): a static method, no NodeMap
\* object is needed
HistorySummaryCall(p, account, startdate) ==
    /\ pc[p] \in {"dead", "idle"}
    /\ call' = [call EXCEPT ![p] = Call("history_summary", EmptyHost, "")]
    /\ ret' = [ret EXCEPT ![p] =
                  RetDict(HistorySummary(journal, db_map, now, account, startdate))]
    /\ UNCHANGED <<now, db_map, journal, etc_hosts, etc_netgroup, lockHolders,
                   pc, nodes, saved, removed, desired>>

\* ------------------------------------------------------- running_summary
\* pd.read_csv(f"{cfg['paths']['etc']}/node_map.csv"): the rows of the registry
NodeMapCsv == db_map

\* df.loc[df['account'] == account].groupby(['type']).size(): the rows
\* (type, counts) of the frame
RunningSummary(df, account) ==
    LET rows == SelectSeq(df, LAMBDA r : r.account = account)
        types == {rows[k].type : k \in 1..Len(rows)}
    IN  {<<t, Len(SelectSeq(rows, LAMBDA r : r.type = t))>> : t \in types}

\* NodeMap.running_summary(account): a static method
RunningSummaryCall(p, account) ==
    /\ pc[p] \in {"dead", "idle"}
    /\ call' = [call EXCEPT ![p] = Call("running_summary", EmptyHost, "")]
    /\ ret' = [ret EXCEPT ![p] = RetFrame(RunningSummary(NodeMapCsv, account))]
    /\ UNCHANGED <<now, db_map, journal, etc_hosts, etc_netgroup, lockHolders,
                   pc, nodes, saved, removed, desired>>

\* --------------------------------------------------------- specification
Init ==
    /\ now = 1
    /\ db_map = <<>>
    /\ journal = <<>>
    /\ etc_hosts = HostsText(<<>>)
    /\ etc_netgroup = NetgroupText(<<>>)
    /\ lockHolders = {}
    /\ pc = [p \in Procs |-> "dead"]
    /\ nodes = [p \in Procs |-> <<>>]
    /\ call = [p \in Procs |-> NoCall]
    /\ saved = [p \in Procs |-> NoRow]
    /\ removed = [p \in Procs |-> <<>>]
    /\ desired = [p \in Procs |-> <<>>]
    /\ ret = [p \in Procs |-> RetNone]

\* power_off is called with a host, or with a cloud and an instance
OffArgs ==
    {<<h, None, None>> : h \in HostNames \cup {EmptyHost}}
    \cup {<<EmptyHost, c, i>> : c \in Clouds, i \in Instances}

\* a row of node_map as power_on leaves it at the first second
OnNode(h) ==
    [NewNode(h) EXCEPT !.instance = "i-1", !.ip = "10.0.0.1",
                       !.start = DbNumber(StrVal(1))]

\* The registries of a cluster in service: some of the hosts, in the order
\* rebuild inserted them, each as rebuild or as power_on left it.
Registries ==
    {r \in UNION {[1..n -> {NewNode(h) : h \in HostNames}
                             \cup {OnNode(h) : h \in HostNames}] :
                     n \in 0..Cardinality(HostNames)} :
        \A j, k \in 1..Len(r) : r[j].host = r[k].host => j = k}

\* A cluster in service: the two files are the ones dump_hosts wrote from
\* the registry, and no process runs.
InitService ==
    /\ now = 1
    /\ db_map \in Registries
    /\ journal = <<>>
    /\ etc_hosts = HostsText(db_map)
    /\ etc_netgroup = NetgroupText(db_map)
    /\ lockHolders = {}
    /\ pc = [p \in Procs |-> "dead"]
    /\ nodes = [p \in Procs |-> <<>>]
    /\ call = [p \in Procs |-> NoCall]
    /\ saved = [p \in Procs |-> NoRow]
    /\ removed = [p \in Procs |-> <<>>]
    /\ desired = [p \in Procs |-> <<>>]
    /\ ret = [p \in Procs |-> RetNone]

\* The system of invocations: every process constructs a NodeMap and makes
\* one call on it, all within one clock second.  The cloud driver hands
\* power_on the id and the address of the instance it started.
Next ==
    \/ \E p \in Procs : Construct(p)
    \/ \E p \in Procs, h \in HostNames :
          call[p] = NoCall /\ PowerOn(p, h, "i-1", "10.0.0.1")
    \/ \E p \in Procs, h \in HostNames :
          call[p] = NoCall /\ PowerOff(p, h, None, None)
    \/ \E p \in Procs : PowerOffJournal(p)
    \/ \E p \in Procs, d \in DesiredLists :
          call[p] = NoCall /\ Rebuild(p, d)
    \/ \E p \in Procs : RebuildRemove(p)
    \/ \E p \in Procs : RebuildAdd(p)
    \/ \E p \in Procs : call[p] = NoCall /\ DumpHosts(p)
    \/ \E p \in Procs : DumpLock(p)
    \/ \E p \in Procs : DumpWriteHosts(p)
    \/ \E p \in Procs : DumpWriteNetgroup(p)
    \/ \E p \in Procs : DumpUnlock(p)

Spec == InitService /\ [][Next]_vars

\* Invocations of power_on, power_off and dump_hosts that follow one another:
\* a process that has returned from its call exits, and the next invocation
\* takes its place.  The scheduler lets every process that can take a step
\* inside dump_hosts take it, and a process blocked in lockf() gets the lock
\* if the lock is free again and again.
NextLive ==
    \/ \E p \in Procs : Construct(p)
    \/ \E p \in Procs : Exit(p)
    \/ \E p \in Procs, h \in HostNames :
          call[p] = NoCall /\ PowerOn(p, h, "i-1", "10.0.0.1")
    \/ \E p \in Procs, h \in HostNames :
          call[p] = NoCall /\ PowerOff(p, h, None, None)
    \/ \E p \in Procs : PowerOffJournal(p)
    \/ \E p \in Procs : call[p] = NoCall /\ DumpHosts(p)
    \/ \E p \in Procs : DumpLock(p)
    \/ \E p \in Procs : DumpWriteHosts(p)
    \/ \E p \in Procs : DumpWriteNetgroup(p)
    \/ \E p \in Procs : DumpUnlock(p)

Fairness ==
    \A p \in Procs :
        /\ SF_vars(DumpLock(p))
        /\ WF_vars(DumpWriteHosts(p))
        /\ WF_vars(DumpWriteNetgroup(p))
        /\ WF_vars(DumpUnlock(p))

SpecLive == InitService /\ [][NextLive]_vars /\ Fairness

\* The same invocations on a machine where opening a file may fail.
NextFail ==
    \/ Next
    \/ \E p \in Procs : DumpFail(p)

SpecFail == InitService /\ [][NextFail]_vars

\* The same invocations on a machine where writing a file may fail too.
NextCrash ==
    \/ NextFail
    \/ \E p \in Procs : DumpWriteFail(p)

SpecCrash == InitService /\ [][NextCrash]_vars

\* the process of the specifications with one process
Main == "p1"

\* A host name that is not of the form a-b-c
BadHost == <<"login">>

\* the lists that the fleet configuration may hand to rebuild
RebuildLists ==
    UNION {[1..n -> HostNames \cup {BadHost}] : n \in 0..Cardinality(HostNames)}

\* One process that reconciles the registry of a cluster in service, any
\* number of times.
NextRebuild ==
    \/ Construct(Main)
    \/ Exit(Main)
    \/ \E d \in RebuildLists : Rebuild(Main, d)
    \/ RebuildRemove(Main)
    \/ RebuildAdd(Main)

SpecRebuild == InitService /\ [][NextRebuild]_vars

\* One NodeMap object used by one process for any sequence of calls, with
\* any arguments.  A call reads the clock once, so a second that passes
\* during a call has passed either before or after it.
NextSeq ==
    \/ pc[Main] \in {"dead", "idle"} /\ Tick
    \/ Construct(Main)
    \/ Exit(Main)
    \/ \E h \in HostNames, i \in Instances, a \in Ips : PowerOn(Main, h, i, a)
    \/ \E x \in OffArgs : PowerOff(Main, x[1], x[2], x[3])
    \/ PowerOffJournal(Main)
    \/ \E d \in DesiredLists : Rebuild(Main, d)
    \/ RebuildRemove(Main)
    \/ RebuildAdd(Main)
    \/ DumpHosts(Main)
    \/ DumpLock(Main)
    \/ DumpWriteHosts(Main)
    \/ DumpWriteNetgroup(Main)
    \/ DumpUnlock(Main)

SpecSeq == Init /\ [][NextSeq]_vars

\* The same process, which also asks for the usage of an account.
NextSummary ==
    \/ NextSeq
    \/ \E a \in Accounts, d \in StartDates : HistorySummaryCall(Main, a, d)

SpecSummary == Init /\ [][NextSummary]_vars

\* One process that makes any sequence of calls within one clock second on a
\* registry in service; the cloud driver hands power_on the id of the
\* instance it started, which differs from one start to the next.
StartedInstances == {"i-1", "i-2"}

NextAssign ==
    \/ Construct(Main)
    \/ Exit(Main)
    \/ \E h \in HostNames, i \in StartedInstances : PowerOn(Main, h, i, "10.0.0.1")
    \/ \E h \in HostNames : PowerOff(Main, h, None, None)
    \/ PowerOffJournal(Main)
    \/ \E d \in DesiredLists : Rebuild(Main, d)
    \/ RebuildRemove(Main)
    \/ RebuildAdd(Main)
    \/ DumpHosts(Main)
    \/ DumpLock(Main)
    \/ DumpWriteHosts(Main)
    \/ DumpWriteNetgroup(Main)
    \/ DumpUnlock(Main)

SpecAssign == InitService /\ [][NextAssign]_vars

\* The same process, which also asks which nodes of an account are running.
NextRunning ==
    \/ NextSeq
    \/ \E a \in Accounts : RunningSummaryCall(Main, a)

SpecRunning == Init /\ [][NextRunning]_vars

\* Two invocations that each power on their own host of a registry that
\* holds both hosts, OFF, with the files generated from it.
HostOf(p) == IF p = "p1" THEN H1 ELSE H2

InitPair ==
    /\ now = 1
    /\ db_map = <<NewNode(H1), NewNode(H2)>>
    /\ journal = <<>>
    /\ etc_hosts = HostsText(<<NewNode(H1), NewNode(H2)>>)
    /\ etc_netgroup = NetgroupText(<<NewNode(H1), NewNode(H2)>>)
    /\ lockHolders = {}
    /\ pc = [p \in Procs |-> "dead"]
    /\ nodes = [p \in Procs |-> <<>>]
    /\ call = [p \in Procs |-> NoCall]
    /\ saved = [p \in Procs |-> NoRow]
    /\ removed = [p \in Procs |-> <<>>]
    /\ desired = [p \in Procs |-> <<>>]
    /\ ret = [p \in Procs |-> RetNone]

NextPair ==
    \/ Tick
    \/ \E p \in Procs : Construct(p)
    \/ \E p \in Procs, i \in Instances \ {""}, a \in Ips \ {""} :
          call[p] = NoCall /\ PowerOn(p, HostOf(p), i, a)
    \/ \E p \in Procs : DumpLock(p)
    \/ \E p \in Procs : DumpWriteHosts(p)
    \/ \E p \in Procs : DumpWriteNetgroup(p)
    \/ \E p \in Procs : DumpUnlock(p)

SpecPair == InitPair /\ [][NextPair]_vars

\* ------------------------------------------------------------------ types
TypeOK ==
    /\ now \in 1..MaxClock
    /\ lockHolders \subseteq Procs
    /\ Len(journal) <= MaxJournal

\* ============================================================ properties
\* process p takes the step
Acted(p) ==
    \/ pc'[p] # pc[p]
    \/ nodes'[p] # nodes[p]
    \/ removed'[p] # removed[p]
    \/ desired'[p] # desired[p]

IsOff(row) == row.instance = "" /\ row.ip = "" /\ row.start.n = 0

\* a row is wholly on or wholly off
RowI1(row) ==
    /\ (row.instance = "") <=> (row.ip = "")
    /\ (row.ip = "") <=> (row.start.n = 0)

\* C1: every row of the registry, persisted or held by a NodeMap object,
\* has instance = '' exactly when ip = '' and exactly when start = 0.
InvI1 ==
    /\ \A k \in 1..Len(db_map) : RowI1(db_map[k])
    /\ \A p \in Procs : \A k \in 1..Len(nodes[p]) : RowI1(nodes[p][k])

\* C2: at most one process holds the node-map lock.
MutualExclusion == Cardinality(lockHolders) <= 1

\* a process holds the lock while another one is blocked in lock()
MutexContended ==
    \E p, q \in Procs : p # q /\ p \in lockHolders /\ pc[q] = "dump_lock"

\* C3: a step that writes the registry or the journal is taken by a process
\* that holds the lock.
WritesUnderLock ==
    [][\A p \in Procs :
          (Acted(p) /\ (db_map' # db_map \/ journal' # journal))
              => p \in lockHolders]_vars

RebuildRefusesLive ==
    [][\A d \in DesiredLists :
          (Rebuild(Main, d) /\ FirstLive(nodes[Main], d) # 0)
              => /\ ret'[Main].kind = "error"
                 /\ ret'[Main].host = nodes[Main][FirstLive(nodes[Main], d)].host
                 /\ db_map' = db_map
                 /\ nodes' = nodes]_vars

\* C7: power_off(host = h) right after power_on(h, i, p) with i # ''
\* returns i and leaves h OFF.
RoundTrip ==
    (pc[Main] = "idle" /\ call[Main].op = "power_off" /\ call[Main].follows # "")
        => /\ ret[Main] = RetStr(call[Main].follows)
           /\ IsOff(GetKey(nodes[Main], call[Main].host))
           /\ GetKey(db_map, call[Main].host).instance = ""
           /\ GetKey(db_map, call[Main].host).ip = ""
           /\ GetKey(db_map, call[Main].host).start = IntVal(0)

\* a power_off that followed the power_on of its host has returned
RoundTripDone ==
    /\ pc[Main] = "idle" /\ call[Main].op = "power_off"
    /\ call[Main].follows = "i-1" /\ ret[Main] = RetStr("i-1")

\* C8: power_off(host = h) for a host that is not in the registry returns
\* '' and changes neither the registry, the journal nor the two files.
UnknownHostNoOp ==
    [][\A h \in HostNames \cup {EmptyHost} :
          (PowerOff(Main, h, None, None) /\ ~HasKey(nodes[Main], h))
              => /\ ret'[Main] = RetStr("")
                 /\ pc'[Main] = "idle"
                 /\ UNCHANGED <<db_map, journal, etc_hosts, etc_netgroup, nodes>>]_vars

\* power_off has returned for a host missing from a registry that holds
\* another host
UnknownHostTried ==
    /\ pc[Main] = "idle" /\ call[Main].op = "power_off"
    /\ call[Main].host \in HostNames
    /\ ~HasKey(nodes[Main], call[Main].host)
    /\ ~HasKey(db_map, call[Main].host)
    /\ nodes[Main] # <<>>
    /\ ret[Main] = RetStr("")

RECURSIVE OnLines(_)
OnLines(rows) ==
    IF rows = <<>> THEN <<>>
    ELSE IF Head(rows).instance # ""
         THEN <<(<<Head(rows).ip, Head(rows).host>>)>> \o OnLines(Tail(rows))
         ELSE OnLines(Tail(rows))

ArtifactsMatchRegistry ==
    lockHolders = {}
        => /\ etc_hosts = HostsText(db_map)
           /\ etc_netgroup = NetgroupText(db_map)

\* C12: the lock taken in dump_hosts is released on every way out of it: a
\* process that is not between lock() and unlock() does not hold the lock,
\* also when reading hosts-base or writing a file has failed.
LockReleasedOnError ==
    \A p \in Procs :
        p \in lockHolders => pc[p] \in {"dump_hosts", "dump_netgroup", "dump_unlock"}

\* C13: a rebuild(S) right after a successful rebuild(S) on the same object
\* returns at once and changes no row of the registry, neither in node_map
\* nor in self.nodes.
RebuildIdempotent ==
    [][\A d \in RebuildLists :
          (Rebuild(Main, d) /\ call[Main].op = "rebuild" /\ call[Main].list = d
              /\ ret[Main] = RetSelf)
              => /\ pc'[Main] = "idle"
                 /\ ret'[Main] = RetSelf
                 /\ db_map' = db_map
                 /\ nodes' = nodes]_vars

\* the second of two rebuilds with the same list has returned, for a list
\* that names a host and a registry that holds it
RebuildRepeated ==
    /\ pc[Main] = "idle" /\ call[Main].op = "rebuild"
    /\ call[Main].follows = "rebuild" /\ ret[Main] = RetSelf
    /\ call[Main].list # <<>>
    /\ Keys(db_map) = SeqRange(call[Main].list)

\* the rows of hosts that are in the list stay as they are, and a host that
\* enters the table enters it OFF
KeptAndAdded(S, rows, rows2) ==
    /\ \A h \in S : HasKey(rows, h)
                       => HasKey(rows2, h) /\ GetKey(rows2, h) = GetKey(rows, h)
    /\ \A h \in Keys(rows2) \ Keys(rows) :
          /\ GetKey(rows2, h).instance = "" /\ GetKey(rows2, h).ip = ""
          /\ GetKey(rows2, h).start = IntVal(0)

NamingI2 ==
    [][pc[Main] = "rebuild_add"
          => \A h \in Keys(nodes'[Main]) \ Keys(nodes[Main]) :
                LET row == GetKey(nodes'[Main], h)
                IN  Len(h) = 3
                       => /\ row.account = <<h[1]>>
                          /\ row.cloud = h[2]
                          /\ row.type = h[3]
                          /\ row.host = row.account \o <<row.cloud, row.type>>]_vars

\* C16: when rebuild has ended for a list with a name of fewer than three
\* segments, and was not refused for a host that is still on, the error
\* names that host, and the registry holds the well-formed hosts of the
\* list and no other host.
BadHostReportedAlone ==
    LET S == SeqRange(call[Main].list)
    IN  (/\ pc[Main] = "idle" /\ call[Main].op = "rebuild"
         /\ \E h \in S : Len(h) < 3
         /\ ret[Main] \notin {RetRaise("NameError"), RetRaise("TypeError")})
            => /\ ret[Main].kind = "error"
               /\ ret[Main].host \in {h \in S : Len(h) < 3}
               /\ Keys(nodes[Main]) = {h \in S : Len(h) >= 3}
               /\ Keys(db_map) = {h \in S : Len(h) >= 3}

\* C17: power_off(cloud = c, instance = i) looks among the ON nodes only.
\* When an ON node has cloud c and instance i, that node and no other is
\* reset and i is what the call returns; when none has, the call returns ''
\* and changes neither the registry nor the journal.
OffByInstanceScansOn ==
    [][/\ \A c \in Clouds, i \in Instances :
             PowerOff(Main, EmptyHost, c, i)
                => LET on == {k \in 1..Len(nodes[Main]) :
                                 /\ nodes[Main][k].instance # ""
                                 /\ nodes[Main][k].cloud = c
                                 /\ nodes[Main][k].instance = i}
                   IN  IF on = {}
                       THEN /\ ret'[Main] = RetStr("")
                            /\ pc'[Main] = "idle"
                            /\ UNCHANGED <<db_map, journal, nodes>>
                       ELSE \E k \in on :
                               /\ saved'[Main] = nodes[Main][k]
                               /\ IsOff(nodes'[Main][k])
                               /\ \A m \in 1..Len(nodes[Main]) :
                                     m # k => nodes'[Main][m] = nodes[Main][m]
       /\ (DumpUnlock(Main) /\ call[Main].op = "power_off"
              /\ call[Main].host = EmptyHost)
             => ret'[Main] = RetStr(call[Main].instance)]_vars

\* C18: power_on(h, i, p) on a host of the registry, OFF or ON, leaves h
\* with instance i, ip p and start now, in self.nodes and in node_map; when
\* it returns the two files are those generated from the registry and the
\* value returned is the node of h.
PowerOnReturnsNode ==
    [][/\ \A h \in HostNames, i \in Instances, a \in Ips :
             (PowerOn(Main, h, i, a) /\ HasKey(nodes[Main], h))
                => /\ GetKey(nodes'[Main], h).instance = i
                   /\ GetKey(nodes'[Main], h).ip = a
                   /\ GetKey(nodes'[Main], h).start.n = now
                   /\ GetKey(db_map', h).instance = i
                   /\ GetKey(db_map', h).ip = a
                   /\ GetKey(db_map', h).start.n = now
       /\ (DumpUnlock(Main) /\ call[Main].op = "power_on")
             => /\ etc_hosts' = HostsText(db_map')
                /\ etc_netgroup' = NetgroupText(db_map')
                /\ ret'[Main].kind = "node"
                /\ ret'[Main].host = call[Main].host]_vars

\* C19: power_on for a host that is not in the registry raises, and the
\* registry, the journal and the two files stay as they are; no row is made.
UnknownHostHardError ==
    [][\A h \in HostNames, i \in Instances, a \in Ips :
          (PowerOn(Main, h, i, a) /\ ~HasKey(nodes[Main], h))
              => /\ ret'[Main].kind = "raise"
                 /\ pc'[Main] = "idle"
                 /\ UNCHANGED <<db_map, journal, etc_hosts, etc_netgroup, nodes>>]_vars

\* power_on has raised for a host missing from a registry that holds
\* another host
UnknownHostRaised ==
    /\ pc[Main] = "idle" /\ call[Main].op = "power_on"
    /\ ret[Main] = RetRaise("KeyError")
    /\ ~HasKey(nodes[Main], call[Main].host)
    /\ ~HasKey(db_map, call[Main].host)
    /\ nodes[Main] # <<>>

RunningCountsOnNodes ==
    [][\A a \in Accounts :
          RunningSummaryCall(Main, a)
              => LET on == SelectSeq(db_map,
                                     LAMBDA r : r.account = a /\ r.instance # "")
                     types == {on[k].type : k \in 1..Len(on)}
                 IN  ret'[Main].data =
                        {<<t, Len(SelectSeq(on, LAMBDA r : r.type = t))>> :
                            t \in types}]_vars

\* C22: the steps of rebuild that remove and insert rows are taken holding
\* the lock; the step on which rebuild returns self leaves both artifacts
\* as dump_hosts writes them from the registry, with the lock released; a
\* rebuild that aborts leaves both artifacts as they were.
RebuildRegenerates ==
    [][/\ pc[Main] \in {"rebuild_remove", "rebuild_add"}
          => Main \in lockHolders
       /\ (call'[Main].op = "rebuild" /\ ret'[Main] = RetSelf
             /\ (pc[Main] # "idle" \/ call'[Main] # call[Main])
             /\ pc'[Main] = "idle")
          => /\ etc_hosts' = HostsText(db_map')
             /\ etc_netgroup' = NetgroupText(db_map')
             /\ Main \notin lockHolders'
       /\ (call'[Main].op = "rebuild" /\ ret'[Main].kind \in {"raise", "error"})
          => /\ etc_hosts' = etc_hosts
             /\ etc_netgroup' = etc_netgroup]_vars

\* C23: every journal entry ends after it starts: end > start.
JournalEndAfterStart ==
    \A k \in 1..Len(journal) : journal[k].end.n > journal[k].start.n

\* C24: the write of /etc/netgroup leaves the group name skyway followed by
\* one tuple for each node that is ON (instance # '') with a non-empty ip,
\* in the order of the registry, and no other tuple.
NetgroupListsOnNodes ==
    [][\A p \in Procs :
          DumpWriteNetgroup(p)
              => LET on == SelectSeq(nodes[p],
                                     LAMBDA r : r.instance # "" /\ r.ip # "")
                 IN  /\ etc_netgroup'.group = "skyway"
                     /\ etc_netgroup'.tuples = [k \in 1..Len(on) |-> on[k].ip]]_vars

\* C25: a step that changes /etc/hosts or /etc/netgroup leaves the complete
\* new content, the text that the writing dump_hosts generates from its
\* registry; whatever happens, no step leaves an empty or partly written
\* file.
ArtifactWritesAtomic ==
    [][/\ etc_hosts' # etc_hosts
          => \E p \in Procs : /\ pc[p] = "dump_hosts"
                              /\ etc_hosts' = HostsText(nodes[p])
       /\ etc_netgroup' # etc_netgroup
          => \E p \in Procs : /\ pc[p] = "dump_netgroup"
                              /\ etc_netgroup' = NetgroupText(nodes[p])]_vars

AssignmentsKept ==
    [][\A h \in HostNames :
          (/\ HasKey(db_map, h)
           /\ GetKey(db_map, h).instance # ""
           /\ \/ ~HasKey(db_map', h)
              \/ GetKey(db_map', h).instance # GetKey(db_map, h).instance)
          => \/ \E k \in 1..Len(journal') :
                   /\ journal'[k].host = h
                   /\ journal'[k].instance = GetKey(db_map, h).instance
             \/ /\ pc'[Main] = "off_journal"
                /\ saved'[Main].host = h
                /\ saved'[Main].instance = GetKey(db_map, h).instance]_vars

\* C28: every journal entry has a non-empty instance and a non-zero start;
\* a power_off whose host is in the registry and OFF goes on without a
\* journal entry to write, and the power_off of a node that had no instance
\* returns the empty string.
JournalEntriesReal ==
    [][/\ \A k \in 1..Len(journal') :
             journal'[k].instance # "" /\ journal'[k].start.n # 0
       /\ \A x \in OffArgs :
             LET h == ResolveHost(nodes[Main], x[1], x[2], x[3])
             IN  (/\ PowerOff(Main, x[1], x[2], x[3])
                  /\ HasKey(nodes[Main], h)
                  /\ IsOff(GetKey(nodes[Main], h)))
                     => pc'[Main] # "off_journal"
       /\ (/\ pc[Main] = "dump_unlock" /\ pc'[Main] = "idle"
           /\ call[Main].op = "power_off" /\ saved[Main].instance = "")
          => ret'[Main] = RetStr("")]_vars

\* rows2 has the hosts of rows in the same places, each with its host,
\* type, cloud and account, and differs from rows in the row of h at most
FrameOf(rows, rows2, h) ==
    /\ Len(rows2) = Len(rows)
    /\ \A k \in 1..Len(rows) :
          /\ rows2[k].host = rows[k].host /\ rows2[k].type = rows[k].type
          /\ rows2[k].cloud = rows[k].cloud /\ rows2[k].account = rows[k].account
          /\ rows[k].host # h => rows2[k] = rows[k]

\* C29: the step of power_on(h, ...) and the step of a power_off that
\* resolves to h change, in node_map and in self.nodes, the row of h only,
\* and of that row neither host, type, cloud nor account; the remaining
\* steps of the two calls change no row.
OnlyRowOfHostChanges ==
    [][/\ \A h \in HostNames, i \in Instances, a \in Ips :
             PowerOn(Main, h, i, a)
                => /\ FrameOf(db_map, db_map', h)
                   /\ FrameOf(nodes[Main], nodes'[Main], h)
       /\ \A x \in OffArgs :
             PowerOff(Main, x[1], x[2], x[3])
                => LET h == ResolveHost(nodes[Main], x[1], x[2], x[3])
                   IN  /\ FrameOf(db_map, db_map', h)
                       /\ FrameOf(nodes[Main], nodes'[Main], h)
       /\ (/\ call[Main].op \in {"power_on", "power_off"}
           /\ pc[Main] \in {"off_journal", "dump_lock", "dump_hosts",
                            "dump_netgroup", "dump_unlock"})
          => db_map' = db_map /\ nodes' = nodes]_vars

\* power_off of a host has returned the instance it took from the host, and
\* another host of the registry is ON
OtherHostStillOn ==
    /\ pc[Main] = "idle" /\ call[Main].op = "power_off"
    /\ call[Main].host \in HostNames /\ ret[Main] = RetStr("i-1")
    /\ IsOff(GetKey(db_map, call[Main].host))
    /\ \E g \in HostNames \ {call[Main].host} :
          /\ HasKey(db_map, g) /\ GetKey(db_map, g).instance = "i-1"
          /\ HasKey(nodes[Main], g) /\ GetKey(nodes[Main], g).ip = "10.0.0.1"

====
